---- MODULE Spec2Model ----
(***************************************************************************)
(* A model of goog.debug.ErrorHandler (closure/goog/debug/errorhandler.js).*)
(*                                                                         *)
(* The heap of function objects is the sequence funcs.  A function object  *)
(* is a user function or a protected wrapper (the closure returned by      *)
(* getProtectedFunction).  The closures protectWindowSetTimeout and        *)
(* protectWindowSetInterval bind to window.setTimeout / window.setInterval *)
(* are kept per scheduler in win: each captures its guard (that) and the   *)
(* function bound before it, so win[s] lists the guards of the shims       *)
(* stacked on the host's native scheduler, the innermost first.            *)
(* The memo property fn['__protected_<uid>_<flag>__'] is the field props   *)
(* of the function object.  A call of a protected wrapper runs in small    *)
(* steps on the call stack `stack`, so that the order of the tracer calls, *)
(* the call of the original function, the call of the handler and the exit *)
(* of the wrapper can be observed.                                         *)
(*                                                                         *)
(* Collaborators outside the file are modelled by their outcomes only: a   *)
(* user function returns some value or throws some exception, the handler  *)
(* returns or throws, goog.debug.Trace.startTracer returns a handle and     *)
(* neither tracer call throws.  The label of a trace span (the stack trace *)
(* getProtectedFunction captures, in the string getStackTraceHolder_ makes *)
(* of it) is left out: no property below reads it.                         *)
(*                                                                         *)
(* A definition named X_<fault> placed before X is X with a fault planted: *)
(* a property is checked to fail when the fault stands in for X.           *)
(***************************************************************************)
EXTENDS Naturals, Sequences, FiniteSets

\* Most protected wrappers the guards build.
MaxWrappers == 2

\* Most scheduler shims the guards install.
MaxShims == 2

\* The ErrorHandler instances; a guard's name stands for goog.getUid(guard).
Guards == {"g1", "g2"}

\* The schedulers of the host's global object.
Scheds == {"setTimeout", "setInterval"}

\* Heap addresses of the user functions, which exist before any guard acts.
UserFns == {1}

\* What a user function does when it is invoked.
Vals == {"v1"}
Excs == {"e1"}
\* What the handler may throw.
HandlerExcs == {"h1"}
\* Receiver and argument list of a direct call of a wrapper.
Calls == {[this |-> "r1", args |-> <<>>],
          [this |-> "r2", args |-> <<"a1", "a2">>]}
\* Receiver of a call of a global scheduler and its arguments after the
\* callback: the delay and what follows it.
SchedulerCalls == {[this |-> "window", rest |-> <<"10">>],
                   [this |-> "obj", rest |-> <<"10", "x1">>]}
\* The guards that instrument the schedulers.
TimerGuards == {"g1"}

VARIABLES
    addTracers,   \* guard -> addTracersToProtectedFunctions_
    funcs,        \* heap of function objects
    win,          \* scheduler name -> guards of the shims bound to it
    hostHasCall,  \* whether the host's native schedulers have a .call
    timers,       \* the timer last registered with a native scheduler, if
                  \* it is still to fire (the host's other timers are not
                  \* followed)
    stack,        \* frames of the running wrapper invocations, innermost last
    run,          \* bookkeeping of the running top-level call
    returned,     \* history: <<guard, fn, flag, wrapper>> of every
                  \* protectEntryPoint call
    lastProtect   \* the protectEntryPoint call application code has just
                  \* made, until its next operation

vars == <<addTracers, funcs, win, hostHasCall, timers, stack, run, returned,
          lastProtect>>

\* ------------------------------------------------------------------------
\* Function objects

BoolStr(b) == IF b THEN "true" ELSE "false"

\* The name of the memo property: '__protected_' + uid + '_' + flag + '__'.
ProtectedFnName(that, flag) ==
    <<"__protected_", that, "_", BoolStr(flag), "__">>

\* The memo properties a function object may carry.
PropNames == {ProtectedFnName(g, b) : g \in Guards, b \in BOOLEAN}

\* A function object without memo properties; 0 reads as undefined.
NoProps == [n \in PropNames |-> 0]

UserFn == [kind |-> "user", fn |-> 0, tracers |-> FALSE, that |-> "",
           props |-> NoProps]

\* The closure getProtectedFunction returns: it captures fn, the guard
\* (that) and the guard's flag of the moment (tracers).
GetProtectedFunction(that, fn) ==
    [kind |-> "wrapper", fn |-> fn, tracers |-> addTracers[that],
     that |-> that, props |-> NoProps]

\* Fault: the memo is never found.
HasProtected_Never(h, fn, name) == FALSE
\* if (!fn[protectedFnName]): whether the memo property is set.
HasProtected(h, fn, name) == h[fn].props[name] # 0

\* protectEntryPoint on heap h: the heap afterwards and the function returned.
ProtectEntryPoint(h, that, fn) ==
    LET name == ProtectedFnName(that, addTracers[that])
        w == Len(h) + 1
    IN  IF ~HasProtected(h, fn, name)
        THEN [funcs |-> [Append(h, GetProtectedFunction(that, fn))
                            EXCEPT ![fn].props[name] = w],
              ret |-> w]
        ELSE [funcs |-> h, ret |-> h[fn].props[name]]

Wrappers(h) == {f \in DOMAIN h : h[f].kind = "wrapper"}

\* The shims installed so far.
Shims == Len(win["setTimeout"]) + Len(win["setInterval"])

\* ------------------------------------------------------------------------
\* Initial state: a fresh guard has the prototype's flag, false.

NoProtect == [that |-> "", fn |-> 0, flag |-> FALSE, ret |-> 0,
              cached |-> FALSE]
NoRun == [origin |-> "none", timer |-> <<>>, hlog |-> <<>>, cbexc |-> "none"]

\* Either kind of host: its native schedulers have a .call method or not.
InitTimers ==
    /\ addTracers = [g \in Guards |-> FALSE]
    /\ funcs = [i \in UserFns |-> UserFn]
    /\ win = [s \in Scheds |-> <<>>]
    /\ hostHasCall \in BOOLEAN
    /\ timers = {}
    /\ stack = <<>>
    /\ run = NoRun
    /\ returned = {}
    /\ lastProtect = NoProtect

\* A host whose native schedulers have a .call method.
Init == InitTimers /\ hostHasCall

\* ------------------------------------------------------------------------
\* Operations of the guard, called while no protected call is running

\* setAddTracersToProtectedFunctions(newVal).
SetAddTracersToProtectedFunctions(that, newVal) ==
    /\ stack = <<>>
    /\ addTracers' = [addTracers EXCEPT ![that] = newVal]
    /\ lastProtect' = NoProtect
    /\ UNCHANGED <<funcs, win, hostHasCall, timers, stack, run, returned>>

\* Application code calls that.protectEntryPoint(fn).
ProtectEntryPointCall(that, fn) ==
    /\ stack = <<>>
    /\ fn \in DOMAIN funcs
    /\ LET p == ProtectEntryPoint(funcs, that, fn)
       IN  /\ Cardinality(Wrappers(p.funcs)) <= MaxWrappers
           /\ funcs' = p.funcs
           /\ returned' = returned \cup
                            {<<that, fn, addTracers[that], p.ret>>}
           /\ lastProtect' = [that |-> that, fn |-> fn,
                               flag |-> addTracers[that], ret |-> p.ret,
                               cached |-> p.funcs = funcs]
    /\ UNCHANGED <<addTracers, win, hostHasCall, timers, stack, run>>

\* wrap: return this.protectEntryPoint(fn).
Wrap(that, fn) == ProtectEntryPointCall(that, fn)

\* win.setTimeout = function(fn, time) {...}: a shim that captures the
\* guard and, as originalSetTimeout, the function bound until now.
ProtectWindowSetTimeout(that) ==
    /\ stack = <<>>
    /\ Shims < MaxShims
    /\ win' = [win EXCEPT !["setTimeout"] = Append(@, that)]
    /\ UNCHANGED <<addTracers, funcs, hostHasCall, timers, stack, run,
                   returned, lastProtect>>

\* win.setInterval = function(fn, time) {...}, likewise.
ProtectWindowSetInterval(that) ==
    /\ stack = <<>>
    /\ Shims < MaxShims
    /\ win' = [win EXCEPT !["setInterval"] = Append(@, that)]
    /\ UNCHANGED <<addTracers, funcs, hostHasCall, timers, stack, run,
                   returned, lastProtect>>

\* ------------------------------------------------------------------------
\* The global schedulers

\* originalSetTimeout.call, for the function below the k-th shim of a
\* scheduler: closures have the method, the host's natives may not.
HasCallMethod(k) == k > 1 \/ hostHasCall

\* The i-th argument of an argument list; a missing one reads undefined.
Arg(args, i) == IF i \in DOMAIN args THEN args[i] ELSE "undefined"

\* What function(fn, time) hands on after the callback: time.
ShimArguments(rest) == <<Arg(rest, 1)>>

\* The receiver the original gets from the k-th shim: this via .call, else
\* (a plain call) the global object.
ShimReceiver(k, this) == IF HasCallMethod(k) THEN this ELSE "window"

\* Fault: the shim hands the callback on as it is.
ShimProtect_Skipped(h, that, fn) == [funcs |-> h, ret |-> fn]
\* fn = that.protectEntryPoint(fn) in a shim.
ShimProtect(h, that, fn) == ProtectEntryPoint(h, that, fn)

\* A call with receiver this and arguments (fn, rest...) of the k-th shim
\* of scheduler s, or for k = 0 of the native scheduler: the heap
\* afterwards, what the native scheduler received, and the
\* protectEntryPoint calls made on the way.
RECURSIVE CallScheduler(_, _, _, _, _, _)
CallScheduler(h, s, k, this, fn, rest) ==
    IF k = 0
    THEN [funcs |-> h, this |-> this, fn |-> fn, rest |-> rest, prot |-> {}]
    ELSE LET that == win[s][k]
             p == ShimProtect(h, that, fn)
             r == CallScheduler(p.funcs, s, k - 1, ShimReceiver(k, this),
                                p.ret, ShimArguments(rest))
         IN  [r EXCEPT !.prot = @ \cup
                          {<<that, fn, addTracers[that], p.ret>>}]

\* Application code calls window[s](cb, rest...) with receiver this.  The
\* timer the host keeps records what the native scheduler received and, for
\* reference, what the caller passed (cb, cthis, crest) and the guards of
\* the shims the call went through (via, the innermost first).
CallGlobalScheduler(s, this, cb, rest) ==
    /\ stack = <<>>
    /\ cb \in DOMAIN funcs
    /\ LET r == CallScheduler(funcs, s, Len(win[s]), this, cb, rest)
       IN  /\ Cardinality(Wrappers(r.funcs)) <= MaxWrappers
           /\ funcs' = r.funcs
           /\ returned' = returned \cup r.prot
           /\ timers' =
                  {[sched |-> s, this |-> r.this, fn |-> r.fn,
                    rest |-> r.rest, cb |-> cb, cthis |-> this,
                    crest |-> rest, via |-> win[s]]}
    /\ UNCHANGED <<addTracers, win, hostHasCall, stack, run, lastProtect>>

\* ------------------------------------------------------------------------
\* A call of a protected wrapper: function() { ... } of getProtectedFunction

NoResult == [kind |-> "none", val |-> ""]

Frame(f, this, args) ==
    [f |-> f, this |-> this, args |-> args, pc |-> "enter",
     tracer |-> <<"undefined">>, exc |-> "", res |-> NoResult, ev |-> <<>>]

Event(op, x, y) == [op |-> op, x |-> x, y |-> y]

Top == stack[Len(stack)]
SetTop(fr) == [stack EXCEPT ![Len(stack)] = fr]

\* Application code calls wrapper w with receiver this and arguments args.
InvokeProtected(w, this, args) ==
    /\ stack = <<>>
    /\ w \in Wrappers(funcs)
    /\ stack' = <<Frame(w, this, args)>>
    /\ run' = [NoRun EXCEPT !.origin = "direct"]
    /\ lastProtect' = NoProtect
    /\ UNCHANGED <<addTracers, funcs, win, hostHasCall, timers, returned>>

\* Fault: the closure reads the guard's flag of the moment.
TracersOf_Live(w) == addTracers[funcs[w].that]
\* if (tracers): the flag the closure captured when it was built.
TracersOf(w) == funcs[w].tracers

\* The handle goog.debug.Trace.startTracer returns: the tracer numbers its
\* spans, so the handles of the spans open at a time differ.
TraceHandle(depth) == <<"tracer", depth>>

\* if (tracers) { var tracer = goog.debug.Trace.startTracer(...); }
StartTracer ==
    /\ stack # <<>>
    /\ Top.pc = "enter"
    /\ IF TracersOf(Top.f)
       THEN LET t == TraceHandle(Len(stack))
            IN  stack' = SetTop([Top EXCEPT
                    !.pc = "try", !.tracer = t,
                    !.ev = Append(@, Event("start", <<>>, t))])
       ELSE stack' = SetTop([Top EXCEPT !.pc = "try"])
    /\ UNCHANGED <<addTracers, funcs, win, hostHasCall, timers, run, returned,
                   lastProtect>>

\* Fault: fn is applied to the guard.
ApplyThis_That(fr) == funcs[fr.f].that
\* The receiver and the arguments of fn.apply(this, arguments).
ApplyThis(fr) == fr.this
ApplyArguments(fr) == fr.args

\* Fault: the value of fn.apply is not returned.
ReturnCompletion_Dropped(v) == [kind |-> "return", val |-> "undefined"]
\* return <value of fn.apply>: the wrapper completes with that value.
ReturnCompletion(v) == [kind |-> "return", val |-> v]

\* return fn.apply(this, arguments), fn a user function that returns v.
ApplyReturns(v) ==
    /\ stack # <<>>
    /\ Top.pc = "try"
    /\ funcs[funcs[Top.f].fn].kind = "user"
    /\ stack' = SetTop([Top EXCEPT
           !.pc = "finally",
           !.res = ReturnCompletion(v),
           !.ev = @ \o <<Event("apply", ApplyThis(Top), ApplyArguments(Top)),
                         Event("returned", v, <<>>)>>])
    /\ UNCHANGED <<addTracers, funcs, win, hostHasCall, timers, run, returned,
                   lastProtect>>

\* fn.apply(this, arguments), fn a user function that throws e.
ApplyThrows(e) ==
    /\ stack # <<>>
    /\ Top.pc = "try"
    /\ funcs[funcs[Top.f].fn].kind = "user"
    /\ stack' = SetTop([Top EXCEPT
           !.pc = "catch",
           !.exc = e,
           !.ev = @ \o <<Event("apply", ApplyThis(Top), ApplyArguments(Top)),
                         Event("threw", e, <<>>)>>])
    /\ run' = [run EXCEPT !.cbexc = e]
    /\ UNCHANGED <<addTracers, funcs, win, hostHasCall, timers, returned,
                   lastProtect>>

\* fn.apply(this, arguments), fn itself a protected wrapper: its call starts.
ApplyWrapper ==
    /\ stack # <<>>
    /\ Top.pc = "try"
    /\ funcs[funcs[Top.f].fn].kind = "wrapper"
    /\ stack' = Append(
           SetTop([Top EXCEPT
               !.pc = "wait",
               !.ev = Append(@, Event("apply", ApplyThis(Top),
                                      ApplyArguments(Top)))]),
           Frame(funcs[Top.f].fn, ApplyThis(Top), ApplyArguments(Top)))
    /\ UNCHANGED <<addTracers, funcs, win, hostHasCall, timers, run, returned,
                   lastProtect>>

\* The protected wrapper that fn.apply called has exited: its value is
\* returned, or its exception is caught.
ApplyWrapperExits ==
    /\ Len(stack) >= 2
    /\ Top.pc = "exit"
    /\ LET caller == stack[Len(stack) - 1]
           callee == Top
       IN  stack' = [SubSeq(stack, 1, Len(stack) - 1) EXCEPT ![Len(stack) - 1] =
              IF callee.res.kind = "return"
              THEN [caller EXCEPT
                      !.pc = "finally",
                      !.res = ReturnCompletion(callee.res.val),
                      !.ev = Append(@, Event("returned", callee.res.val, <<>>))]
              ELSE [caller EXCEPT
                      !.pc = "catch",
                      !.exc = callee.res.val,
                      !.ev = Append(@, Event("threw", callee.res.val, <<>>))]]
    /\ UNCHANGED <<addTracers, funcs, win, hostHasCall, timers, run, returned,
                   lastProtect>>

\* The argument of that.errorHandlerFn_(e).
HandlerArgument(fr) == fr.exc

\* catch (e) { that.errorHandlerFn_(e); ... }: the handler returns.
HandlerReturns ==
    /\ stack # <<>>
    /\ Top.pc = "catch"
    /\ stack' = SetTop([Top EXCEPT
           !.pc = "rethrow",
           !.ev = Append(@, Event("handler", HandlerArgument(Top), <<>>))])
    /\ run' = [run EXCEPT !.hlog = Append(@,
                  [g |-> funcs[Top.f].that, e |-> HandlerArgument(Top)])]
    /\ UNCHANGED <<addTracers, funcs, win, hostHasCall, timers, returned,
                   lastProtect>>

\* catch (e) { that.errorHandlerFn_(e); ... }: the handler itself throws x,
\* which leaves the catch block in place of the throw statement.
HandlerThrows(x) ==
    /\ stack # <<>>
    /\ Top.pc = "catch"
    /\ stack' = SetTop([Top EXCEPT
           !.pc = "finally",
           !.res = [kind |-> "throw", val |-> x],
           !.ev = @ \o <<Event("handler", HandlerArgument(Top), <<>>),
                         Event("handlerThrew", x, <<>>)>>])
    /\ run' = [run EXCEPT !.hlog = Append(@,
                  [g |-> funcs[Top.f].that, e |-> HandlerArgument(Top)])]
    /\ UNCHANGED <<addTracers, funcs, win, hostHasCall, timers, returned,
                   lastProtect>>

\* Fault: the catch block ends without the throw.
ThrowCompletion_Swallowed(fr) == [kind |-> "return", val |-> "undefined"]
\* Fault: another exception is thrown in place of e.
ThrowCompletion_Wrapped(fr) == [kind |-> "throw", val |-> "wrapped"]
\* throw e: the completion of the catch block after the handler returned.
ThrowCompletion(fr) == [kind |-> "throw", val |-> fr.exc]

\* throw e;  // Re-throw it since this may be expected by the caller.
Rethrow ==
    /\ stack # <<>>
    /\ Top.pc = "rethrow"
    /\ stack' = SetTop([Top EXCEPT !.pc = "finally",
                                    !.res = ThrowCompletion(Top)])
    /\ UNCHANGED <<addTracers, funcs, win, hostHasCall, timers, run, returned,
                   lastProtect>>

\* Fault: the tracer is stopped after the try block, not in a finally.
RunsFinally_OnReturnOnly(fr) == fr.res.kind = "return"
\* finally: the block runs whatever the completion of try and catch is.
RunsFinally(fr) == TRUE

\* The argument of goog.debug.Trace.stopTracer(tracer).
StopArgument(fr) == fr.tracer

\* finally { if (tracers) { goog.debug.Trace.stopTracer(tracer); } }
\* The completion of try and catch stands: the block has no return or throw.
Finally ==
    /\ stack # <<>>
    /\ Top.pc = "finally"
    /\ stack' = SetTop([Top EXCEPT
           !.pc = "exit",
           !.ev = IF RunsFinally(Top) /\ TracersOf(Top.f)
                  THEN Append(@, Event("stop", <<>>, StopArgument(Top)))
                  ELSE @])
    /\ UNCHANGED <<addTracers, funcs, win, hostHasCall, timers, run, returned,
                   lastProtect>>

\* The outermost wrapper's completion reaches its caller (application code
\* or the host), which ends the top-level call.
Exit ==
    /\ Len(stack) = 1
    /\ Top.pc = "exit"
    /\ stack' = <<>>
    /\ run' = NoRun
    /\ UNCHANGED <<addTracers, funcs, win, hostHasCall, timers, returned,
                   lastProtect>>

\* ------------------------------------------------------------------------
\* The host's timers

\* The arguments the host passes to a callback: those after the delay.
HostArguments(rest) == IF Len(rest) <= 1 THEN <<>> ELSE Tail(rest)

\* A timeout fires once, an interval stays registered.
AfterFiring(tm) == IF tm.sched = "setTimeout" THEN timers \ {tm} ELSE timers

\* The host fires a timer whose callback is a protected wrapper.
HostFires(tm) ==
    /\ stack = <<>>
    /\ tm \in timers
    /\ funcs[tm.fn].kind = "wrapper"
    /\ stack' = <<Frame(tm.fn, "window", HostArguments(tm.rest))>>
    /\ run' = [NoRun EXCEPT !.origin = "timer", !.timer = tm]
    /\ timers' = AfterFiring(tm)
    /\ UNCHANGED <<addTracers, funcs, win, hostHasCall, returned, lastProtect>>

\* The host fires a timeout whose callback no guard has wrapped: whatever
\* the user function does, no code of the guard runs.
HostFiresUnprotected(tm) ==
    /\ stack = <<>>
    /\ tm \in timers
    /\ funcs[tm.fn].kind = "user"
    /\ tm.sched = "setTimeout"
    /\ timers' = AfterFiring(tm)
    /\ UNCHANGED <<addTracers, funcs, win, hostHasCall, stack, run, returned,
                   lastProtect>>

\* ------------------------------------------------------------------------

\* Application code wraps functions and calls the wrappers.
Next ==
    \/ \E g \in Guards, b \in BOOLEAN : SetAddTracersToProtectedFunctions(g, b)
    \/ \E g \in Guards, f \in DOMAIN funcs : Wrap(g, f)
    \/ \E g \in Guards, f \in DOMAIN funcs : ProtectEntryPointCall(g, f)
    \/ \E w \in DOMAIN funcs, c \in Calls : InvokeProtected(w, c.this, c.args)
    \/ StartTracer
    \/ \E v \in Vals : ApplyReturns(v)
    \/ \E e \in Excs : ApplyThrows(e)
    \/ ApplyWrapper
    \/ ApplyWrapperExits
    \/ HandlerReturns
    \/ \E x \in HandlerExcs : HandlerThrows(x)
    \/ Rethrow
    \/ Finally
    \/ Exit

Spec == Init /\ [][Next]_vars

\* Application code instruments the schedulers and schedules callbacks,
\* which the host fires.
NextTimers ==
    \/ \E g \in TimerGuards, b \in BOOLEAN :
          SetAddTracersToProtectedFunctions(g, b)
    \/ \E g \in TimerGuards : ProtectWindowSetTimeout(g)
    \/ \E g \in TimerGuards : ProtectWindowSetInterval(g)
    \/ \E s \in Scheds, c \in SchedulerCalls, cb \in DOMAIN funcs :
          CallGlobalScheduler(s, c.this, cb, c.rest)
    \/ \E tm \in timers : HostFires(tm)
    \/ \E tm \in timers : HostFiresUnprotected(tm)
    \/ StartTracer
    \/ \E v \in Vals : ApplyReturns(v)
    \/ \E e \in Excs : ApplyThrows(e)
    \/ ApplyWrapper
    \/ ApplyWrapperExits
    \/ HandlerReturns
    \/ \E x \in HandlerExcs : HandlerThrows(x)
    \/ Rethrow
    \/ Finally
    \/ Exit

SpecTimers == InitTimers /\ [][NextTimers]_vars

\* ------------------------------------------------------------------------
\* Properties

\* The running invocations, and those that have reached their exit.
Frames == {stack[i] : i \in DOMAIN stack}
Exited == {fr \in Frames : fr.pc = "exit"}

\* Positions of the events of one kind in an invocation's log.
At(fr, op) == {i \in DOMAIN fr.ev : fr.ev[i].op = op}
Count(fr, op) == Cardinality(At(fr, op))

\* The invocation's original function threw e / returned v.
Threw(fr, e) == \E i \in At(fr, "threw") : fr.ev[i].x = e
Returned(fr, v) == \E i \in At(fr, "returned") : fr.ev[i].x = v

\* The handler was invoked exactly once in the invocation, with e.
HandledOnce(fr, e) ==
    /\ Count(fr, "handler") = 1
    /\ \A i \in At(fr, "handler") : fr.ev[i].x = e

AnyExc == Excs \cup HandlerExcs

\* C1 as claimed: whenever the original function throws e, the wrapper
\* throws e itself and the handler has been invoked exactly once, with e,
\* when the throw reaches the wrapper's caller.
C1_ThrowsSameException ==
    \A fr \in Exited : \A e \in AnyExc :
        Threw(fr, e) =>
            /\ fr.res = [kind |-> "throw", val |-> e]
            /\ HandledOnce(fr, e)

\* C1 amended: whenever the original function throws e, the handler is
\* invoked exactly once, with e, before the wrapper completes; the wrapper
\* then throws e itself if the handler returned, and throws what the handler
\* threw if the handler threw.
C1_ThrowsSameUnlessHandlerThrows ==
    \A fr \in Frames : \A e \in AnyExc :
        Threw(fr, e) =>
            /\ fr.pc \in {"rethrow", "finally", "exit"} => HandledOnce(fr, e)
            /\ fr.pc = "catch" => Count(fr, "handler") = 0
            /\ fr.pc = "exit" =>
                 IF Count(fr, "handlerThrew") = 0
                 THEN fr.res = [kind |-> "throw", val |-> e]
                 ELSE \A i \in At(fr, "handlerThrew") :
                         fr.res = [kind |-> "throw", val |-> fr.ev[i].x]

\* A wrapper has thrown the exception of its original function on, after
\* the handler returned.
C1_Witness ==
    \E fr \in Exited :
        /\ Threw(fr, "e1")
        /\ Count(fr, "handlerThrew") = 0
        /\ fr.res = [kind |-> "throw", val |-> "e1"]

\* C2: at most one wrapper is ever built per guard, function and flag value,
\* every protectEntryPoint call under one flag value returned that wrapper,
\* and it is the one cached on the function under the guard's key.
C2_OneWrapperPerKey ==
    /\ \A w1, w2 \in Wrappers(funcs) :
          (/\ funcs[w1].that = funcs[w2].that
           /\ funcs[w1].fn = funcs[w2].fn
           /\ funcs[w1].tracers = funcs[w2].tracers) => w1 = w2
    /\ \A t1, t2 \in returned :
          (t1[1] = t2[1] /\ t1[2] = t2[2] /\ t1[3] = t2[3]) => t1[4] = t2[4]
    /\ \A t \in returned :
          /\ t[4] \in Wrappers(funcs)
          /\ funcs[t[4]].fn = t[2]
          /\ funcs[t[2]].props[ProtectedFnName(t[1], t[3])] = t[4]

\* protectEntryPoint has returned the cached false-flag wrapper of a
\* function after the flag was toggled to true, where a second wrapper was
\* built, and back.
C2_Witness ==
    /\ lastProtect.cached
    /\ ~lastProtect.flag
    /\ \E t \in returned :
          /\ t[1] = lastProtect.that
          /\ t[2] = lastProtect.fn
          /\ t[3]
          /\ t[4] > lastProtect.ret

\* C3: an invocation of a wrapper built with tracing enabled starts exactly
\* one trace span before it calls the original function and stops it
\* exactly once, with the handle the start returned, as its last act on
\* every exit path: return, throw, and the handler throwing.
C3_TracerBrackets ==
    \A fr \in Frames :
        funcs[fr.f].tracers =>
            /\ Count(fr, "start") = (IF fr.pc = "enter" THEN 0 ELSE 1)
            /\ \A i \in At(fr, "start") : i = 1
            /\ Count(fr, "stop") = (IF fr.pc = "exit" THEN 1 ELSE 0)
            /\ \A i \in At(fr, "stop") :
                  /\ i = Len(fr.ev)
                  /\ fr.ev[i].y = fr.ev[1].y
                  /\ Count(fr, "apply") = 1
                  /\ \A j \in At(fr, "apply") : 1 < j /\ j < i

\* A traced invocation in which the handler threw has stopped its span.
C3_Witness ==
    \E fr \in Exited :
        /\ funcs[fr.f].tracers
        /\ Count(fr, "handlerThrew") = 1
        /\ Count(fr, "stop") = 1

\* C4: when the original function returns v, the wrapper returns v and the
\* handler is not invoked during that call.
C4_ReturnsValue ==
    \A fr \in Frames : \A v \in Vals \cup {"undefined"} :
        Returned(fr, v) =>
            /\ Count(fr, "handler") = 0
            /\ fr.pc = "exit" => fr.res = [kind |-> "return", val |-> v]

\* A wrapper has returned the value of its original function.
C4_Witness ==
    \E fr \in Exited : Returned(fr, "v1") /\ fr.res.kind = "return"

\* C5: the wrappers protectEntryPoint returns for one function under the
\* two flag values are distinct, each keeps the flag value it was built
\* under, and an invocation starts and stops a trace span exactly if its
\* wrapper was built with the flag set, whatever the guard's flag is now.
C5_WrapperKeepsFlag ==
    /\ \A t1, t2 \in returned :
          (t1[1] = t2[1] /\ t1[2] = t2[2] /\ t1[3] # t2[3]) => t1[4] # t2[4]
    /\ \A t \in returned : funcs[t[4]].tracers = t[3]
    /\ \A fr \in Frames :
          /\ fr.pc # "enter" =>
                Count(fr, "start") = (IF funcs[fr.f].tracers THEN 1 ELSE 0)
          /\ fr.pc = "exit" =>
                Count(fr, "stop") = (IF funcs[fr.f].tracers THEN 1 ELSE 0)

\* Both wrappers of one function exist, and the one built without tracing
\* has run without a trace span while the guard's flag was set.
C5_Witness ==
    /\ \E t1, t2 \in returned :
          t1[1] = t2[1] /\ t1[2] = t2[2] /\ t1[3] # t2[3]
    /\ \E fr \in Exited :
          /\ ~funcs[fr.f].tracers
          /\ addTracers[funcs[fr.f].that]
          /\ Count(fr, "start") = 0

\* C8: an invocation of a wrapper calls the original function exactly once,
\* with the receiver and the arguments the wrapper was called with.
C8_SameReceiverAndArguments ==
    \A fr \in Frames :
        /\ Count(fr, "apply") = (IF fr.pc \in {"enter", "try"} THEN 0 ELSE 1)
        /\ \A i \in At(fr, "apply") :
              fr.ev[i].x = fr.this /\ fr.ev[i].y = fr.args

\* A wrapper called with receiver r2 and two arguments has exited.
C8_Witness ==
    \E fr \in Exited :
        /\ fr.this = "r2"
        /\ fr.args = <<"a1", "a2">>
        /\ Count(fr, "apply") = 1

\* C9: once the original function has thrown, the wrapper's completion is
\* a throw, whether the handler returns or throws and with or without
\* tracing.
C9_NeverSwallows ==
    \A fr \in Frames :
        (Count(fr, "threw") > 0 /\ fr.pc \in {"finally", "exit"}) =>
            fr.res.kind = "throw"

\* A traced wrapper has thrown after its handler returned.
C9_Witness ==
    \E fr \in Exited :
        /\ Count(fr, "threw") = 1
        /\ Count(fr, "handlerThrew") = 0
        /\ funcs[fr.f].tracers
        /\ fr.res.kind = "throw"

\* The wrappers around a function, the outermost first, and what they wrap.
RECURSIVE Layers(_)
Layers(f) ==
    IF funcs[f].kind = "wrapper" THEN <<f>> \o Layers(funcs[f].fn) ELSE <<>>
RECURSIVE Innermost(_)
Innermost(f) ==
    IF funcs[f].kind = "wrapper" THEN Innermost(funcs[f].fn) ELSE f

\* The host has fired the followed timer, which went through a shim, and
\* the callback's wrapper has reached its exit.
FiredAndExited ==
    /\ run.origin = "timer"
    /\ run.timer.via # <<>>
    /\ Len(stack) = 1
    /\ Top.pc = "exit"

\* How often the handler of guard g was invoked in the running call.
Reports(g) == Cardinality({i \in DOMAIN run.hlog : run.hlog[i].g = g})

\* C6 as claimed: a callback scheduled through an instrumented scheduler
\* reaches the native scheduler as its wrapper protect(cb), and a firing in
\* which the callback throws reports to the guard's handler exactly once.
C6_ReportedOncePerFiring ==
    /\ \A tm \in timers :
          tm.via # <<>> =>
             /\ funcs[tm.fn].kind = "wrapper"
             /\ funcs[tm.fn].fn = tm.cb
    /\ (FiredAndExited /\ run.cbexc # "none") =>
          \A i \in DOMAIN run.timer.via : Reports(run.timer.via[i]) = 1

\* C6 amended: when the scheduler has been instrumented exactly once and cb
\* is a plain function, not itself a protected wrapper, cb reaches the
\* native scheduler as the guard's cached wrapper protect(cb), and a firing
\* in which cb throws e reports e to the guard's handler exactly once.
C6_ReportedOnceWhenInstrumentedOnce ==
    /\ \A tm \in timers :
          (Len(tm.via) = 1 /\ funcs[tm.cb].kind = "user") =>
             /\ funcs[tm.fn].kind = "wrapper"
             /\ funcs[tm.fn].fn = tm.cb
             /\ funcs[tm.fn].that = tm.via[1]
             /\ \E b \in BOOLEAN :
                   funcs[tm.cb].props[ProtectedFnName(tm.via[1], b)] = tm.fn
    /\ (/\ FiredAndExited
        /\ Len(run.timer.via) = 1
        /\ funcs[run.timer.cb].kind = "user"
        /\ run.cbexc # "none") =>
          run.hlog = <<[g |-> run.timer.via[1], e |-> run.cbexc]>>

\* A callback scheduled through a single shim has thrown in a firing.
C6_Witness ==
    /\ FiredAndExited
    /\ Len(run.timer.via) = 1
    /\ funcs[run.timer.cb].kind = "user"
    /\ run.cbexc = "e1"
    /\ Len(run.hlog) = 1

\* C7 as claimed: the native scheduler receives the receiver of the call of
\* the global scheduler and, position by position, every argument that
\* followed the callback.
C7_ArgumentsPreserved ==
    \A tm \in timers :
        tm.via # <<>> =>
           /\ tm.this = tm.cthis
           /\ \A i \in DOMAIN tm.rest \cup DOMAIN tm.crest :
                 Arg(tm.rest, i) = Arg(tm.crest, i)

\* C10: a plain callback scheduled through n stacked shims reaches the
\* native scheduler under n wrappers, one per shim and of that shim's
\* guard, and a firing in which the callback throws invokes the handler n
\* times, once per wrapper.
C10_ShimsStack ==
    /\ \A tm \in timers :
          funcs[tm.cb].kind = "user" =>
             /\ Len(Layers(tm.fn)) = Len(tm.via)
             /\ Innermost(tm.fn) = tm.cb
             /\ \A j \in DOMAIN tm.via :
                   funcs[Layers(tm.fn)[j]].that = tm.via[j]
    /\ (/\ FiredAndExited
        /\ funcs[run.timer.cb].kind = "user"
        /\ run.cbexc # "none") =>
          /\ Len(run.hlog) = Len(run.timer.via)
          /\ \A g \in TimerGuards :
                Reports(g) =
                  Cardinality({j \in DOMAIN run.timer.via :
                                  run.timer.via[j] = g})

\* A callback scheduled through two shims of one guard has thrown in a
\* firing, and the handler was invoked twice.
C10_Witness ==
    /\ FiredAndExited
    /\ run.timer.via = <<"g1", "g1">>
    /\ funcs[run.timer.cb].kind = "user"
    /\ run.cbexc = "e1"
    /\ Reports("g1") = 2

====
